---- MODULE Spec2Model ----
(***************************************************************************)
(* Model of examples/single_calculations/example_excitation.py: the click  *)
(* entry point cli and the function example_excitation, one action per     *)
(* statement.  The collaborators the script calls into (the code database  *)
(* behind Code.get_from_string, the file system behind ase.io.read and     *)
(* SinglefileData, the engine behind run) are the environment: their       *)
(* state is chosen in Init and their outcomes are nondeterministic.        *)
(***************************************************************************)
EXTENDS Integers, Sequences, FiniteSets, TLC

VARIABLES
    pc,                 \* the source line about to execute, "exited" or "raised"
    codelabel,          \* the command-line argument of cli
    db,                 \* code database: label -> set of primary keys carrying it
    fs,                 \* file system: path -> "absent" | "valid" | "garbage"
    code,               \* cli's local `code`, example_excitation's `cp2k_code`
    exc,                \* the exception that left cli, with the line that raised it
    exitStatus,         \* <<>> while the process runs, <<n>> after sys.exit(n)
    printed,            \* the lines written to stdout, in order
    calls,              \* the functions called so far, in order
    fileOps,            \* the file opens performed so far, in order
    structure,          \* local of example_excitation (line 32)
    basis_file_molopt,  \* local (line 35)
    basis_file_grb,     \* local (line 36)
    basis_file_admm,    \* local (line 37)
    pseudo_file,        \* local (line 40)
    parameters,         \* local (line 43)
    builder,            \* local (line 133)
    submitted,          \* the builders handed to run, in order
    runState            \* "idle" | "running" | "returned" | "failed"

vars == <<pc, codelabel, db, fs, code, exc, exitStatus, printed, calls, fileOps,
          structure, basis_file_molopt, basis_file_grb, basis_file_admm,
          pseudo_file, parameters, builder, submitted, runState>>

\* ---------------------------------------------------------------- bounds

\* Primary keys the code database may hold.
MaxPk == 2

Pks == 1..MaxPk

\* Labels the user may type; the database may or may not know each.
Labels == {"cp2k@localhost", "cp2k-dev@cluster"}

\* ---------------------------------------------------------------- values

None == [kind |-> "None"]

Range(s) == {s[i] : i \in DOMAIN s}

\* os.path.join on path components, and os.path.basename.
PathJoin(dir, parts) == dir \o parts

Basename(path) == path[Len(path)]

\* os.path.dirname(os.path.realpath(__file__))
thisdir == <<"examples", "single_calculations">>

FilesDir == PathJoin(thisdir, <<"..", "files">>)

StructurePath == PathJoin(FilesDir, <<"acetylene.xyz">>)

BasisMoloptPath == PathJoin(FilesDir, <<"BASIS_MOLOPT">>)

BasisGrbPath == PathJoin(FilesDir, <<"BASIS_ccGRB_UZH">>)

BasisAdmmPath == PathJoin(FilesDir, <<"BASIS_ADMM_UZH">>)

PseudoPath == PathJoin(FilesDir, <<"GTH_POTENTIALS">>)

InputPaths == {StructurePath, BasisMoloptPath, BasisGrbPath, BasisAdmmPath, PseudoPath}

\* The messages of the three print statements.
TestingMsg == [text |-> "Testing CP2K excited state ENERGY on acetylene (DFT-ADMM)...",
               arg |-> ""]

SubmittedMsg == [text |-> "Submitted calculation...", arg |-> ""]

NotExistMsg(label) == [text |-> "The code '{codelabel}' does not exist.", arg |-> label]

\* The exceptions the submission call may raise (NotExistent among them: the
\* engine loads nodes too).
RunErrors == {"NotExistent", "RuntimeError"}

\* ---------------------------------------------------------------- parameters

\* The dict literal of lines 44-130, section by section.  Floats are kept as
\* their literals, {} is the empty function.

\* Lines 48-53.
TddfptSection ==
    [NSTATES |-> 2,
     MAX_ITER |-> 50,
     CONVERGENCE |-> "[eV] 1.0e-5",
     ADMM_KERNEL_CORRECTION_SYMMETRIC |-> TRUE]

\* Lines 63-66, with CUTOFF and REL_CUTOFF exchanged.
MgridSectionSwapped ==
    [CUTOFF |-> 60,
     REL_CUTOFF |-> 900]

\* Lines 63-66.
MgridSection ==
    [CUTOFF |-> 900,
     REL_CUTOFF |-> 60]

\* Lines 78-100.
XcSection ==
    [XC_FUNCTIONAL |-> [
        GGA_C_PBE |-> <<>>,
        GGA_X_PBE |-> [
            SCALE |-> "0.75"]],
     HF |-> [
        FRACTION |-> "0.25",
        HF_INFO |-> <<>>,
        INTERACTION_POTENTIAL |-> [
            POTENTIAL_TYPE |-> "TRUNCATED",
            CUTOFF_RADIUS |-> "4.0"],
        SCREENING |-> [
            EPS_SCHWARZ |-> "1.0E-10",
            SCREEN_ON_INITIAL_P |-> FALSE],
        MEMORY |-> [
            MAX_MEMORY |-> 3000]]]

\* Lines 55-105.
DftSection ==
    [BASIS_SET_FILE_NAME |-> <<"BASIS_ccGRB_UZH", "BASIS_ADMM_UZH">>,
     POTENTIAL_FILE_NAME |-> "POTENTIAL_UZH",
     QS |-> ("EPS_DEFAULT" :> "1.0e-12")
             @@ ("WF_INTERPOLATION" :> "ps")
             @@ ("EXTRAPOLATION_ORDER" :> 3),
     MGRID |-> MgridSection,
     AUXILIARY_DENSITY_MATRIX_METHOD |-> [
        METHOD |-> "BASIS_PROJECTION",
        ADMM_PURIFICATION_METHOD |-> "NONE",
        EXCH_SCALING_MODEL |-> "NONE",
        EXCH_CORRECTION_FUNC |-> "NONE"],
     EXCITED_STATES |-> [
        STATE |-> 1],
     XC |-> XcSection,
     POISSON |-> [
        PERIODIC |-> "NONE",
        PSOLVER |-> "WAVELET"]]

\* Lines 106-128.
SubsysSection ==
    [CELL |-> [
        ABC |-> "14.0 14.0 14.0",
        PERIODIC |-> "NONE"],
     TOPOLOGY |-> [
        CENTER_COORDINATES |-> <<>>],
     KIND |-> <<
        ("_" :> "H") @@ ("BASIS_SET ORB" :> "ccGRB-D-q1")
            @@ ("BASIS_SET AUX_FIT" :> "admm-dzp-q1")
            @@ ("POTENTIAL" :> "GTH-PBE0-q1"),
        ("_" :> "C") @@ ("BASIS_SET ORB" :> "ccGRB-D-q4")
            @@ ("BASIS_SET AUX_FIT" :> "admm-dzp-q4")
            @@ ("POTENTIAL" :> "GTH-PBE0-q4")>>]

\* Lines 44-130.
ParametersDict ==
    [FORCE_EVAL |-> [
        METHOD |-> "Quickstep",
        PROPERTIES |-> [
            TDDFPT |-> TddfptSection],
        DFT |-> DftSection,
        SUBSYS |-> SubsysSection]]

\* Dict(dict=...)
Dict(d) == [kind |-> "Dict", dict |-> d]

\* SinglefileData(file=path): the node carries the file's base name.
SinglefileData(path) == [kind |-> "SinglefileData", filename |-> Basename(path)]

\* StructureData(ase=ase.io.read(path))
StructureData(path) == [kind |-> "StructureData", source |-> Basename(path)]

\* builder.<name> = value
SetAttr(obj, name, value) == (name :> value) @@ obj

\* The resources of lines 143-146 and the wallclock limit of line 147.
NumMachines == 16

NumMpiprocsPerMachine == 1

Resources == [num_machines |-> NumMachines,
              num_mpiprocs_per_machine |-> NumMpiprocsPerMachine]

MaxWallclockSeconds == 1 * 3 * 60

\* ---------------------------------------------------------------- control

\* NextLine with lines 149 and 150 exchanged: the message printed after run
\* returns.
NextLinePrintAfterRun(line) ==
    CASE line = "L162" -> "L27"
      [] line = "L27"  -> "L32"
      [] line = "L32"  -> "L35"
      [] line = "L35"  -> "L36"
      [] line = "L36"  -> "L37"
      [] line = "L37"  -> "L40"
      [] line = "L40"  -> "L43"
      [] line = "L43"  -> "L133"
      [] line = "L133" -> "L134"
      [] line = "L134" -> "L135"
      [] line = "L135" -> "L136"
      [] line = "L136" -> "L137"
      [] line = "L137" -> "L143"
      [] line = "L143" -> "L147"
      [] line = "L147" -> "L150"
      [] line = "L150" -> "L149"
      [] line = "L149" -> "L166"
      [] OTHER         -> "exited"

\* The statement that follows each statement of the straight-line code.
NextLine(line) ==
    CASE line = "L162" -> "L27"
      [] line = "L27"  -> "L32"
      [] line = "L32"  -> "L35"
      [] line = "L35"  -> "L36"
      [] line = "L36"  -> "L37"
      [] line = "L37"  -> "L40"
      [] line = "L40"  -> "L43"
      [] line = "L43"  -> "L133"
      [] line = "L133" -> "L134"
      [] line = "L134" -> "L135"
      [] line = "L135" -> "L136"
      [] line = "L136" -> "L137"
      [] line = "L137" -> "L143"
      [] line = "L143" -> "L147"
      [] line = "L147" -> "L149"
      [] line = "L149" -> "L150"
      [] line = "L150" -> "L166"
      [] OTHER         -> "exited"

\* Handler with the try block stretched over line 162 as well.
HandlerAnywhere(line, type) ==
    IF type = "NotExistent" THEN "L160" ELSE "raised"

\* The try/except of lines 157-161: where control goes when the statement at
\* `line` raises an exception of type `type`.
Handler(line, type) ==
    IF line = "L158" /\ type = "NotExistent" THEN "L160" ELSE "raised"

\* raise: control moves to the handler, or the exception leaves cli.
Raise(line, type) ==
    /\ pc' = Handler(line, type)
    /\ exc' = IF Handler(line, type) = "raised"
                THEN [kind |-> "Exception", type |-> type, line |-> line]
                ELSE None

\* OpenMode with the files opened for writing.
OpenModeWrite == "w"

\* The mode in which the input files are opened, and what opening does to
\* the file system.
OpenMode == "r"

FsAfterOpen(files, path, mode) ==
    IF mode = "r" THEN files ELSE [files EXCEPT ![path] = "garbage"]

locals == <<structure, basis_file_molopt, basis_file_grb, basis_file_admm,
            pseudo_file, parameters, builder>>

env == <<codelabel, db>>

\* ---------------------------------------------------------------- Init

Init ==
    /\ pc = "L158"
    /\ codelabel \in Labels
    /\ db \in [Labels -> SUBSET Pks]
    /\ fs \in [InputPaths -> {"absent", "valid", "garbage"}]
    /\ code = None
    /\ exc = None
    /\ exitStatus = <<>>
    /\ printed = <<>>
    /\ calls = <<>>
    /\ fileOps = <<>>
    /\ structure = None
    /\ basis_file_molopt = None
    /\ basis_file_grb = None
    /\ basis_file_admm = None
    /\ pseudo_file = None
    /\ parameters = None
    /\ builder = None
    /\ submitted = <<>>
    /\ runState = "idle"

\* ---------------------------------------------------------------- cli

\* Line 158: code = Code.get_from_string(codelabel), inside the try.
CliLookup ==
    /\ pc = "L158"
    /\ calls' = Append(calls, "Code.get_from_string")
    /\ IF db[codelabel] = {}
         THEN Raise("L158", "NotExistent") /\ code' = code
       ELSE IF Cardinality(db[codelabel]) > 1
         THEN Raise("L158", "MultipleObjectsError") /\ code' = code
       ELSE /\ code' = [kind |-> "Code", label |-> codelabel,
                        pk |-> CHOOSE k \in db[codelabel] : TRUE]
            /\ pc' = "L162"
            /\ exc' = exc
    /\ UNCHANGED <<env, fs, exitStatus, printed, fileOps, locals, submitted, runState>>

\* CliExcept without the sys.exit(1) of line 161: control falls through to
\* line 162.
CliExceptNoExit ==
    /\ pc = "L160"
    /\ printed' = Append(printed, NotExistMsg(codelabel))
    /\ pc' = "L162"
    /\ UNCHANGED <<env, fs, code, exc, exitStatus, calls, fileOps, locals, submitted,
                   runState>>

\* Lines 160-161: the except branch prints and calls sys.exit(1).
CliExcept ==
    /\ pc = "L160"
    /\ printed' = Append(printed, NotExistMsg(codelabel))
    /\ exitStatus' = <<1>>
    /\ pc' = "exited"
    /\ UNCHANGED <<env, fs, code, exc, calls, fileOps, locals, submitted, runState>>

\* Line 162: example_excitation(code).
CliCallExample ==
    /\ pc = "L162"
    /\ calls' = Append(calls, "example_excitation")
    /\ pc' = NextLine("L162")
    /\ UNCHANGED <<env, fs, code, exc, exitStatus, printed, fileOps, locals,
                   submitted, runState>>

\* CliExit with the sys.exit(1) of line 161 reached on the normal path too.
CliExitStatus1 ==
    /\ pc = "L166"
    /\ exitStatus' = <<1>>
    /\ pc' = "exited"
    /\ UNCHANGED <<env, fs, code, exc, calls, printed, fileOps, locals, submitted,
                   runState>>

\* Line 166: cli() returns normally and click ends the process with status 0.
CliExit ==
    /\ pc = "L166"
    /\ exitStatus' = <<0>>
    /\ pc' = "exited"
    /\ UNCHANGED <<env, fs, code, exc, calls, printed, fileOps, locals, submitted,
                   runState>>

\* ---------------------------------------------------------------- example_excitation

\* Line 27.
PrintTesting ==
    /\ pc = "L27"
    /\ printed' = Append(printed, TestingMsg)
    /\ pc' = NextLine("L27")
    /\ UNCHANGED <<env, fs, code, exc, exitStatus, calls, fileOps, locals,
                   submitted, runState>>

\* Opening an input file: the open is logged, the file system is what the
\* open leaves, and the read fails when the file is absent.
OpenInput(path) ==
    /\ fileOps' = Append(fileOps, [path |-> path, mode |-> OpenMode])
    /\ fs' = FsAfterOpen(fs, path, OpenMode)

\* Line 32: structure = StructureData(ase=ase.io.read(.../acetylene.xyz)).
LoadStructure ==
    /\ pc = "L32"
    /\ OpenInput(StructurePath)
    /\ IF fs[StructurePath] = "absent"
         THEN Raise("L32", "FileNotFoundError") /\ structure' = structure
       ELSE IF fs[StructurePath] = "garbage"
         THEN Raise("L32", "ParseError") /\ structure' = structure
       ELSE /\ structure' = StructureData(StructurePath)
            /\ pc' = NextLine("L32")
            /\ exc' = exc
    /\ UNCHANGED <<env, code, exitStatus, printed, calls, basis_file_molopt,
                   basis_file_grb, basis_file_admm, pseudo_file, parameters,
                   builder, submitted, runState>>

\* Lines 35-40: one SinglefileData(file=path) statement at `line`, assigning
\* the local whose value is `old` before and `new` after.
LoadSinglefile(line, path, old, new) ==
    /\ pc = line
    /\ OpenInput(path)
    /\ IF fs[path] = "absent"
         THEN Raise(line, "FileNotFoundError") /\ new = old
         ELSE /\ new = SinglefileData(path)
              /\ pc' = NextLine(line)
              /\ exc' = exc
    /\ UNCHANGED <<env, code, exitStatus, printed, calls, structure, parameters,
                   builder, submitted, runState>>

\* Line 35.
LoadBasisMolopt ==
    /\ LoadSinglefile("L35", BasisMoloptPath, basis_file_molopt, basis_file_molopt')
    /\ UNCHANGED <<basis_file_grb, basis_file_admm, pseudo_file>>

\* Line 36.
LoadBasisGrb ==
    /\ LoadSinglefile("L36", BasisGrbPath, basis_file_grb, basis_file_grb')
    /\ UNCHANGED <<basis_file_molopt, basis_file_admm, pseudo_file>>

\* Line 37.
LoadBasisAdmm ==
    /\ LoadSinglefile("L37", BasisAdmmPath, basis_file_admm, basis_file_admm')
    /\ UNCHANGED <<basis_file_molopt, basis_file_grb, pseudo_file>>

\* Line 40.
LoadPseudo ==
    /\ LoadSinglefile("L40", PseudoPath, pseudo_file, pseudo_file')
    /\ UNCHANGED <<basis_file_molopt, basis_file_grb, basis_file_admm>>

\* Lines 43-130.
BuildParameters ==
    /\ pc = "L43"
    /\ parameters' = Dict(ParametersDict)
    /\ pc' = NextLine("L43")
    /\ UNCHANGED <<env, fs, code, exc, exitStatus, printed, calls, fileOps,
                   structure, basis_file_molopt, basis_file_grb, basis_file_admm,
                   pseudo_file, builder, submitted, runState>>

\* A statement of lines 133-147 that only rebinds or updates `builder`.
BuilderStep(line, value) ==
    /\ pc = line
    /\ builder' = value
    /\ pc' = NextLine(line)
    /\ UNCHANGED <<env, fs, code, exc, exitStatus, printed, fileOps,
                   structure, basis_file_molopt, basis_file_grb, basis_file_admm,
                   pseudo_file, parameters, submitted, runState>>

\* Line 133: builder = cp2k_code.get_builder().
GetBuilder ==
    /\ BuilderStep("L133", [kind |-> "Builder", owner |-> code])
    /\ calls' = Append(calls, "get_builder")

\* Line 134.
SetStructure ==
    /\ BuilderStep("L134", SetAttr(builder, "structure", structure))
    /\ calls' = calls

\* Line 135.
SetParameters ==
    /\ BuilderStep("L135", SetAttr(builder, "parameters", parameters))
    /\ calls' = calls

\* SetCode resolving the label a second time instead of using cp2k_code.
SetCodeLookupAgain ==
    /\ BuilderStep("L136", SetAttr(builder, "code", code))
    /\ calls' = Append(calls, "Code.get_from_string")

\* Line 136.
SetCode ==
    /\ BuilderStep("L136", SetAttr(builder, "code", code))
    /\ calls' = calls

\* SetFile with the pseudopotential attachment left out.
SetFileNoPseudo ==
    /\ BuilderStep("L137", SetAttr(builder, "file",
            [basis_molopt |-> basis_file_molopt,
             basis_grb |-> basis_file_grb,
             basis_admm |-> basis_file_admm]))
    /\ calls' = calls

\* Lines 137-142.
SetFile ==
    /\ BuilderStep("L137", SetAttr(builder, "file",
            [basis_molopt |-> basis_file_molopt,
             basis_grb |-> basis_file_grb,
             basis_admm |-> basis_file_admm,
             pseudo |-> pseudo_file]))
    /\ calls' = calls

\* Lines 143-146.
SetResources ==
    /\ BuilderStep("L143", SetAttr(builder, "resources", Resources))
    /\ calls' = calls

\* Line 147.
SetWallclock ==
    /\ BuilderStep("L147", SetAttr(builder, "max_wallclock_seconds", MaxWallclockSeconds))
    /\ calls' = calls

\* Line 149.
PrintSubmitted ==
    /\ pc = "L149"
    /\ printed' = Append(printed, SubmittedMsg)
    /\ pc' = NextLine("L149")
    /\ UNCHANGED <<env, fs, code, exc, exitStatus, calls, fileOps, locals,
                   submitted, runState>>

\* Line 150: run(builder) is entered with the builder as it is now.
RunInvoke ==
    /\ pc = "L150"
    /\ runState = "idle"
    /\ calls' = Append(calls, "run")
    /\ submitted' = Append(submitted, builder)
    /\ runState' = "running"
    /\ UNCHANGED <<pc, env, fs, code, exc, exitStatus, printed, fileOps, locals>>

\* Line 150: run returns; example_excitation returns to cli, cli returns.
RunReturn ==
    /\ pc = "L150"
    /\ runState = "running"
    /\ runState' = "returned"
    /\ pc' = NextLine("L150")
    /\ UNCHANGED <<env, fs, code, exc, exitStatus, printed, calls, fileOps, locals,
                   submitted>>

\* RunRaise with a retry: the failed submission is attempted again.
RunRaiseRetry ==
    /\ pc = "L150"
    /\ runState = "running"
    /\ runState' = "idle"
    /\ UNCHANGED <<pc, env, fs, code, exc, exitStatus, printed, calls, fileOps,
                   locals, submitted>>

\* Line 150: run raises.
RunRaise ==
    /\ pc = "L150"
    /\ runState = "running"
    /\ runState' = "failed"
    /\ \E e \in RunErrors : Raise("L150", e)
    /\ UNCHANGED <<env, fs, code, exitStatus, printed, calls, fileOps, locals,
                   submitted>>

Next ==
    \/ CliLookup
    \/ CliExcept
    \/ CliCallExample
    \/ CliExit
    \/ PrintTesting
    \/ LoadStructure
    \/ LoadBasisMolopt
    \/ LoadBasisGrb
    \/ LoadBasisAdmm
    \/ LoadPseudo
    \/ BuildParameters
    \/ GetBuilder
    \/ SetStructure
    \/ SetParameters
    \/ SetCode
    \/ SetFile
    \/ SetResources
    \/ SetWallclock
    \/ PrintSubmitted
    \/ RunInvoke
    \/ RunReturn
    \/ RunRaise

Spec == Init /\ [][Next]_vars

\* ---------------------------------------------------------------- properties

Count(s, x) == Cardinality({i \in DOMAIN s : s[i] = x})

Terminated == pc \in {"exited", "raised"}

\* The lines of example_excitation that load an input file.
LoadLines == {"L32", "L35", "L36", "L37", "L40"}

\* What the lookup of line 158 finds for the label given.
CodeMissing == db[codelabel] = {}

CodeResolves == Cardinality(db[codelabel]) = 1

AllInputsLoaded ==
    /\ structure # None
    /\ basis_file_molopt # None
    /\ basis_file_grb # None
    /\ basis_file_admm # None
    /\ pseudo_file # None

\* C1: when the lookup of the label reports NotExistent, cli prints the error
\* message naming the label and exits with status 1; example_excitation is
\* never entered and run is never invoked.
C1_MissingCodeExitsOne ==
    CodeMissing =>
        /\ pc \in {"L158", "L160", "exited"}
        /\ exc = None
        /\ "example_excitation" \notin Range(calls)
        /\ "run" \notin Range(calls)
        /\ submitted = <<>>
        /\ runState = "idle"
        /\ exitStatus \in {<<>>, <<1>>}
        /\ pc = "exited" => /\ exitStatus = <<1>>
                            /\ printed = <<[text |-> "The code '{codelabel}' does not exist.",
                                            arg |-> codelabel]>>

C1_Witness ==
    /\ CodeMissing
    /\ pc = "exited"
    /\ exitStatus = <<1>>
    /\ Len(printed) = 1

\* What the builder handed to run must carry.
Populated(b) ==
    /\ {"structure", "parameters", "code", "file", "resources",
        "max_wallclock_seconds"} \subseteq DOMAIN b
    /\ b.structure.kind = "StructureData"
    /\ b.structure.source = "acetylene.xyz"
    /\ b.parameters.kind = "Dict"
    /\ b.code.kind = "Code"
    /\ b.code = code
    /\ DOMAIN b.file = {"basis_molopt", "basis_grb", "basis_admm", "pseudo"}
    /\ b.file.basis_molopt.filename = "BASIS_MOLOPT"
    /\ b.file.basis_grb.filename = "BASIS_ccGRB_UZH"
    /\ b.file.basis_admm.filename = "BASIS_ADMM_UZH"
    /\ b.file.pseudo.filename = "GTH_POTENTIALS"
    /\ b.resources = [num_machines |-> 16, num_mpiprocs_per_machine |-> 1]
    /\ b.max_wallclock_seconds = 180

\* C2: when all input files load, run is invoked exactly once, and the builder
\* it is invoked with has structure, parameters, code, the four attachments,
\* the resources (16 machines, 1 MPI process each) and the 180 s limit set.
C2_RunOnceWithPopulatedBuilder ==
    /\ Len(submitted) <= 1
    /\ Count(calls, "run") = Len(submitted)
    /\ \A i \in DOMAIN submitted : Populated(submitted[i])
    /\ (Terminated /\ AllInputsLoaded) => Len(submitted) = 1
    /\ runState # "idle" => Len(submitted) = 1

C2_Witness ==
    /\ AllInputsLoaded
    /\ pc = "exited"
    /\ Len(submitted) = 1
    /\ runState = "returned"

\* C3 as stated: in the assembled parameters the number of excited states
\* (TDDFPT/NSTATES) is 1 and the cutoff (MGRID/CUTOFF) is 900.
C3_NStatesOneCutoff900 ==
    parameters # None =>
        /\ parameters.dict.FORCE_EVAL.PROPERTIES.TDDFPT.NSTATES = 1
        /\ parameters.dict.FORCE_EVAL.DFT.MGRID.CUTOFF = 900

\* C3 as amended: the number of excited states (TDDFPT/NSTATES) is 2, the
\* state selected (EXCITED_STATES/STATE) is 1 and the cutoff is 900.
C3_StateOneNStatesTwoCutoff900 ==
    parameters # None =>
        /\ parameters.kind = "Dict"
        /\ parameters.dict.FORCE_EVAL.PROPERTIES.TDDFPT.NSTATES = 2
        /\ parameters.dict.FORCE_EVAL.DFT.EXCITED_STATES.STATE = 1
        /\ parameters.dict.FORCE_EVAL.DFT.MGRID.CUTOFF = 900

C3_Witness ==
    /\ parameters # None
    /\ Len(submitted) = 1
    /\ submitted[1].parameters = parameters

\* C4 as stated: when the label resolves to an existing code, the process
\* ends with exit status 0, after run was invoked and returned.
C4_ResolvedCodeExitsZero ==
    (CodeResolves /\ Terminated) =>
        /\ exitStatus = <<0>>
        /\ runState = "returned"

\* C4 as amended: when the label resolves, every input file loads and run
\* returns, the process ends with exit status 0; status 0 is never set
\* before run has been invoked and has returned.
C4_ExitZeroOnlyAfterRunReturned ==
    /\ exitStatus = <<0>> =>
            /\ CodeResolves
            /\ pc = "exited"
            /\ runState = "returned"
            /\ Count(calls, "run") = 1
    /\ runState = "returned" =>
            /\ pc \in {"L166", "exited"}
            /\ pc = "exited" => exitStatus = <<0>>
    /\ runState = "running" => exitStatus = <<>>
    /\ (CodeResolves /\ Terminated /\ AllInputsLoaded /\ runState # "failed")
            => exitStatus = <<0>>

C4_Witness ==
    /\ CodeResolves
    /\ exitStatus = <<0>>
    /\ runState = "returned"

\* C5: only the NotExistent of the lookup becomes the message plus exit
\* status 1; every other failure leaves cli as the exception raised, with
\* nothing printed for it and no exit status set, and after a failure while
\* loading an input file run has not been invoked.
C5_OtherFailuresPropagate ==
    /\ (pc = "raised") = (exc # None)
    /\ exc # None =>
            /\ exitStatus = <<>>
            /\ \A i \in DOMAIN printed : printed[i].text # "The code '{codelabel}' does not exist."
    /\ exitStatus = <<1>> => CodeMissing
    /\ (pc # "L158" /\ Cardinality(db[codelabel]) > 1) =>
            exc = [kind |-> "Exception", type |-> "MultipleObjectsError", line |-> "L158"]
    /\ (fileOps # <<>> /\ fs[fileOps[Len(fileOps)].path] = "absent") =>
            /\ exc # None
            /\ exc.type = "FileNotFoundError"
            /\ exc.line \in LoadLines
    /\ (exc # None /\ exc.line \in LoadLines) =>
            /\ submitted = <<>>
            /\ "run" \notin Range(calls)
            /\ runState = "idle"
    /\ runState = "failed" =>
            /\ exc # None
            /\ exc.line = "L150"
            /\ exc.type \in {"NotExistent", "RuntimeError"}

C5_Witness ==
    /\ runState = "failed"
    /\ exc # None
    /\ exc.type = "NotExistent"

\* C6: run is invoked at most once, also when it fails, and after a failed
\* submission no step of the script is taken.
C6_NoRetryAfterFailure ==
    /\ Len(submitted) <= 1
    /\ Count(calls, "run") <= 1
    /\ runState = "failed" =>
            /\ pc = "raised"
            /\ Len(submitted) = 1
            /\ ~ ENABLED Next

C6_Witness ==
    /\ runState = "failed"
    /\ Len(submitted) = 1

\* The five input files, relative to the script's directory.
ExpectedReads ==
    {thisdir \o <<"..", "files", name>> :
        name \in {"acetylene.xyz", "BASIS_MOLOPT", "BASIS_ccGRB_UZH",
                  "BASIS_ADMM_UZH", "GTH_POTENTIALS"}}

\* C7: no step of the script changes the file system; the only file
\* operations are reads of the five input files at their fixed paths.
C7_FileSystemUnchanged ==
    [][/\ fs' = fs
       /\ \/ fileOps' = fileOps
          \/ \E p \in ExpectedReads :
                fileOps' = Append(fileOps, [path |-> p, mode |-> "r"])]_vars

C7_Witness ==
    /\ Len(fileOps) = 5
    /\ {fileOps[i].path : i \in DOMAIN fileOps} = ExpectedReads
    /\ pc = "exited"

\* The file names the parameters of builder b reference under FORCE_EVAL/DFT,
\* and the names of the files attached to b.
ReferencedFiles(b) ==
    Range(b.parameters.dict.FORCE_EVAL.DFT.BASIS_SET_FILE_NAME)
        \cup {b.parameters.dict.FORCE_EVAL.DFT.POTENTIAL_FILE_NAME}

AttachedFiles(b) == {b.file[k].filename : k \in DOMAIN b.file}

\* C8: every file name the parameters reference under FORCE_EVAL/DFT is the
\* name of a file attached to the builder.
C8_ReferencedFilesAttached ==
    \A i \in DOMAIN submitted :
        ReferencedFiles(submitted[i]) \subseteq AttachedFiles(submitted[i])

\* C9: "Submitted calculation..." is printed before run is invoked: it is
\* there whenever the submission step is reached, also when run fails, and
\* never when loading an input file failed.
C9_SubmittedPrintedBeforeRun ==
    /\ pc = "L150" => Count(printed, SubmittedMsg) = 1
    /\ "run" \in Range(calls) => Count(printed, SubmittedMsg) = 1
    /\ runState = "failed" => Count(printed, SubmittedMsg) = 1
    /\ parameters = None => Count(printed, SubmittedMsg) = 0
    /\ (exc # None /\ exc.line \in LoadLines) => Count(printed, SubmittedMsg) = 0

C9_Witness ==
    /\ runState = "failed"
    /\ printed = <<TestingMsg, SubmittedMsg>>

\* C10: the code resolved from the label is the object get_builder is called
\* on and the builder's code field; the lookup happens once per invocation,
\* before any input file is read.
C10_OneLookupSameCode ==
    /\ Count(calls, "Code.get_from_string") = (IF pc = "L158" THEN 0 ELSE 1)
    /\ pc = "L158" => fileOps = <<>>
    /\ code # None => /\ code.label = codelabel
                      /\ db[codelabel] = {code.pk}
    /\ builder # None => /\ code # None
                         /\ builder.owner = code
    /\ (builder # None /\ pc \notin {"L134", "L135", "L136"}) =>
            /\ "code" \in DOMAIN builder
            /\ builder.code = code
    /\ \A i \in DOMAIN submitted : /\ submitted[i].owner = code
                                   /\ submitted[i].code = code

C10_Witness ==
    /\ Len(submitted) = 1
    /\ submitted[1].code = code
    /\ Len(fileOps) = 5
    /\ calls = <<"Code.get_from_string", "example_excitation", "get_builder", "run">>

====
